---- MODULE Spec2Model ----
(***************************************************************************)
(* A model of lib_ibroadcast.py (the iBroadcast client class ciBroadCast    *)
(* and the wildcard matcher MatchWildCard).                                 *)
(*                                                                          *)
(* Python strings that the code inspects character by character (album     *)
(* names, wildcard filters, track paths, folders) are sequences of          *)
(* one-character strings.  Python indices are 0-based: element i of a list  *)
(* is element i+1 of the sequence.                                          *)
(***************************************************************************)
EXTENDS Integers, Sequences, FiniteSets, TLC

VARIABLES
    mValue,     \* MatchWildCard: the uValue argument of the outermost call
    mPattern,   \* MatchWildCard: the uMatchWithWildCard argument
    mResult,    \* MatchWildCard: the value returned
    mPc,        \* "call" before the call, "done" after it, "idle" when unused
    bAllowUndocumentedAPIs, \* self._bAllowUndocumentedAPIs
    aMD5s,      \* self._aMD5s: the checksum list of the client
    remoteMD5s, \* the checksums the remote service has recorded
    call,       \* the last method called on the client, with its arguments
    requests,   \* the remote requests that call issued, in order
    outcome,    \* what that call returned or raised
    failedAt,   \* the position in requests of the request that failed in
                \* _Post (bad status or connection error), 0 when none did
    decision,   \* UploadTrack: "skip" (line 488), "upload" (line 490), else "none"
    compared,   \* UploadTrack: self._aMD5s as line 486 read it
    uploadedNF, \* history: contents a non-forced UploadTrack has transferred
    dLibrary,   \* self._dLibrary: the snapshot, {} until one is loaded
    aAlbums,    \* self._aAlbums: the selected album IDs
    aTracks,    \* self._aTracks: the selected track IDs
    dPlayListName,  \* self._dPlayListName: playlist name -> playlist record
    dMap_Albums,    \* self._dMap_Albums
    iAlbums_IndexAlbumName, \* self._iAlbums_IndexAlbumName
    iAlbums_IndexTracks,    \* self._iAlbums_IndexTracks
    dMap_Tracks,    \* self._dMap_Tracks
    iTracks_IndexPath,      \* self._iTracks_IndexPath
    dMap_PlayLists, \* self._dMap_PlayLists
    iPlayLists_IndexPlayListName,   \* self._iPlayLists_IndexPlayListName
    remotePlayLists,    \* the playlists the remote service holds: <<id, name>>, oldest first
    ufPc,       \* upload_folder: "start" (line 111), "loop" (line 114), "done"
                \* (returned), "raised" (left by an exception), "idle" when unused
    args,       \* upload_folder: args.force and args.dryrun
    folder_files,   \* upload_folder: the list of line 113
    iFile,      \* upload_folder: how many files the loop of line 114 has taken
    ufLog       \* upload_folder: the per-file reports of lines 117, 121 and 123

matchVars == <<mValue, mPattern, mResult, mPc>>

uploadVars == <<bAllowUndocumentedAPIs, aMD5s, remoteMD5s, decision, compared,
                uploadedNF>>

callVars == <<call, requests, outcome, failedAt>>

batchVars == <<ufPc, args, folder_files, iFile, ufLog>>

selectionVars == <<aAlbums, aTracks, dMap_Albums, iAlbums_IndexAlbumName,
                   iAlbums_IndexTracks, dMap_Tracks, iTracks_IndexPath>>

playListVars == <<dPlayListName, dMap_PlayLists, iPlayLists_IndexPlayListName>>

libraryVars == <<dLibrary, selectionVars, playListVars, remotePlayLists>>

vars == <<mValue, mPattern, mResult, mPc, bAllowUndocumentedAPIs, aMD5s,
          remoteMD5s, call, requests, outcome, decision, compared, uploadedNF,
          dLibrary, aAlbums, aTracks, dPlayListName, dMap_Albums,
          iAlbums_IndexAlbumName, iAlbums_IndexTracks, dMap_Tracks,
          iTracks_IndexPath, dMap_PlayLists, iPlayLists_IndexPlayListName,
          remotePlayLists, failedAt, ufPc, args, folder_files, iFile, ufLog>>

(***************************************************************************)
(* Bounds of the model.                                                    *)
(***************************************************************************)
MaxValueLen == 3
MaxPatternLen == 3
\* UploadTrack is called while self._aMD5s is shorter than this
MaxMD5s == 3
\* the remote service answers a 'library' request with {} at most this many
\* times in a row
MaxEmptyResponses == 1
\* playlists are created while the remote service has handed out fewer IDs
MaxPlayLists == 1
\* upload_folder finds at most this many files to upload
MaxFolderFiles == 3

\* The characters strings are made of: two literals that differ only in
\* case, and the two wildcard characters.
Chars == {"a", "A", "*", "?"}

RECURSIVE StringsUpTo(_)
StringsUpTo(n) ==
    IF n = 0 THEN {<<>>}
    ELSE LET shorter == StringsUpTo(n - 1)
         IN  shorter \cup {<<c>> \o s : c \in Chars, s \in {t \in shorter : Len(t) = n - 1}}

(***************************************************************************)
(* Python's s[1:]: the empty string stays the empty string.                *)
(***************************************************************************)
Rest(s) == IF Len(s) = 0 THEN <<>> ELSE Tail(s)

(***************************************************************************)
(* MatchWildCard (lib_ibroadcast.py 26-56), branch for branch.             *)
(***************************************************************************)
\* a matcher that folds case before comparing literals
FoldCase(c) == IF c = "A" THEN "a" ELSE c
StepsOne_CaseFolded(uValue, uMatchWithWildCard) ==
    \/ (Len(uMatchWithWildCard) > 1 /\ uMatchWithWildCard[1] = "?")
    \/ (Len(uMatchWithWildCard) # 0 /\ Len(uValue) # 0
        /\ FoldCase(uMatchWithWildCard[1]) = FoldCase(uValue[1]))

\* line 47: the '?' test needs a pattern of more than one character; the
\* literal test compares the two first characters.
StepsOne(uValue, uMatchWithWildCard) ==
    \/ (Len(uMatchWithWildCard) > 1 /\ uMatchWithWildCard[1] = "?")
    \/ (Len(uMatchWithWildCard) # 0 /\ Len(uValue) # 0
        /\ uMatchWithWildCard[1] = uValue[1])

\* line 42: a '*' followed by more pattern, against an empty value.
StarNeedsMore(uValue, uMatchWithWildCard) ==
    Len(uMatchWithWildCard) > 1 /\ uMatchWithWildCard[1] = "*" /\ Len(uValue) = 0

RECURSIVE MatchWildCard(_, _)
MatchWildCard(uValue, uMatchWithWildCard) ==
    IF Len(uMatchWithWildCard) = 0 /\ Len(uValue) = 0 THEN TRUE
    ELSE IF StarNeedsMore(uValue, uMatchWithWildCard) THEN FALSE
    ELSE IF StepsOne(uValue, uMatchWithWildCard)
         THEN MatchWildCard(Rest(uValue), Rest(uMatchWithWildCard))
    ELSE IF Len(uMatchWithWildCard) # 0 /\ uMatchWithWildCard[1] = "*"
         THEN \/ MatchWildCard(uValue, Rest(uMatchWithWildCard))
              \/ MatchWildCard(Rest(uValue), uMatchWithWildCard)
    ELSE FALSE

\* an `or` that evaluates both of its operands
SecondAlternative_Always(first) == TRUE

\* line 54: Python's `or` evaluates its second operand only when the first
\* is False
SecondAlternative(first) == ~first

\* the arguments <<uValue, uMatchWithWildCard>> of the recursive calls that
\* one call of MatchWildCard makes itself (lines 48 and 54)
RecursiveCalls(uValue, uMatchWithWildCard) ==
    IF Len(uMatchWithWildCard) = 0 /\ Len(uValue) = 0 THEN {}
    ELSE IF StarNeedsMore(uValue, uMatchWithWildCard) THEN {}
    ELSE IF StepsOne(uValue, uMatchWithWildCard)
         THEN {<<Rest(uValue), Rest(uMatchWithWildCard)>>}
    ELSE IF Len(uMatchWithWildCard) # 0 /\ uMatchWithWildCard[1] = "*"
         THEN {<<uValue, Rest(uMatchWithWildCard)>>}
              \cup IF SecondAlternative(
                         MatchWildCard(uValue, Rest(uMatchWithWildCard)))
                   THEN {<<Rest(uValue), uMatchWithWildCard>>}
                   ELSE {}
    ELSE {}

(***************************************************************************)
(* What a call leaves for the caller: a returned value or a raised         *)
(* exception.                                                               *)
(***************************************************************************)
Return(v) == <<"return", v>>
Raise(e) == <<"raise", e>>
NoOutcome == <<"none", "">>

Range(s) == {s[i] : i \in DOMAIN s}

(***************************************************************************)
(* The local files UploadTrack is given.  f1 and f2 are byte-identical;    *)
(* f4 cannot be opened.                                                     *)
(***************************************************************************)
Files == {"f1", "f2", "f3", "f4"}
ReadableFiles == {"f1", "f2", "f3"}
FileContent == [f \in ReadableFiles |-> IF f = "f3" THEN "c2" ELSE "c1"]

\* hashlib.md5 hexdigest of a content: never the empty string.
HexDigest == [c \in {"c1", "c2"} |-> IF c = "c1" THEN "d1" ELSE "d2"]

\* _CalcMD5 (503-513) of a file that can be opened.
CalcMD5(uFilepath) == HexDigest[FileContent[uFilepath]]

(***************************************************************************)
(* The remote service, seen from _Post (390-411).  A request either fails  *)
(* (bad status or connection error: ServerError) or is answered.           *)
(***************************************************************************)
\* answers to the checksum request of GetMD5s
MD5Responses == {"fail", "nomd5", "md5"}
\* answers to the transfer of UploadTrack: failure, result true, result false
UploadResponses == {"fail", "true", "false"}
\* answers to the status request of GetSupportedFiletypes
FiletypeResponses == {"fail", "nosupported", "supported"}

\* what the remote service may hold when the client is constructed
InitialRemoteMD5s == {<<>>, <<"d1">>, <<"d2">>, <<"d1", "d2">>}

\* the service records the checksum of a file it has accepted
RemoteAccepts(md5s, uFilepath) ==
    IF CalcMD5(uFilepath) \in Range(md5s) THEN md5s
    ELSE Append(md5s, CalcMD5(uFilepath))

Req(cmd, arg) == <<cmd, arg>>

(***************************************************************************)
(* GetMD5s (413-436) past the guard of line 422, as a function of the      *)
(* answer: the request it issues, what it raises, the new self._aMD5s.     *)
(***************************************************************************)
GetMD5sRun(resp, md5s, remote) ==
    [requests |-> <<Req("md5", "")>>,
     raised   |-> IF resp = "md5" THEN "" ELSE "ServerError",
     failedAt |-> IF resp = "fail" THEN 1 ELSE 0,
     md5s     |-> IF resp = "md5" THEN remote ELSE md5s]

\* line 481: the list is fetched when it is empty
NeedsMD5s(bForce, md5s) == ~bForce /\ md5s = <<>>

\* a comparison with the test inverted
AlreadyUploaded_Inverted(uTrackMD5, md5s) == uTrackMD5 \notin Range(md5s)

\* line 486
AlreadyUploaded(uTrackMD5, md5s) == uTrackMD5 \in Range(md5s)

\* lines 476 and 485: the checksum the call holds when it reaches line 490
TrackMD5(uFilepath, bForce) == IF bForce THEN "" ELSE CalcMD5(uFilepath)

\* an upload whose checksum is never recorded
RecordUpload_Dropped(md5s, uTrackMD5, result) == md5s

\* an upload whose checksum is recorded whatever the result
RecordUpload_Always(md5s, uTrackMD5, result) == Append(md5s, uTrackMD5)

\* lines 499-500
RecordUpload(md5s, uTrackMD5, result) ==
    IF result THEN Append(md5s, uTrackMD5) ELSE md5s

(***************************************************************************)
(* UploadTrack (461-501) past the guard of line 471, as a function of the  *)
(* answers the remote service gives.                                        *)
(***************************************************************************)
UploadTrackRun(uFilepath, bForce, mresp, uresp, md5s, remote) ==
    LET fetch == IF NeedsMD5s(bForce, md5s)
                 THEN GetMD5sRun(mresp, md5s, remote)
                 ELSE [requests |-> <<>>, raised |-> "", failedAt |-> 0,
                       md5s |-> md5s]
        stop(exc, dec, cmp) ==
            [requests |-> fetch.requests, outcome |-> Raise(exc), md5s |-> fetch.md5s,
             remote |-> remote, decision |-> dec, compared |-> cmp, sent |-> FALSE,
             failedAt |-> fetch.failedAt]
        transfer(cmp) ==
            \* lines 490-501
            IF uFilepath \notin ReadableFiles THEN stop("OSError", "upload", cmp)
            ELSE LET reqs == fetch.requests \o <<Req("upload", uFilepath)>>
                 IN  IF uresp = "fail"
                     THEN [requests |-> reqs, outcome |-> Raise("ServerError"),
                           md5s |-> fetch.md5s, remote |-> remote,
                           decision |-> "upload", compared |-> cmp, sent |-> FALSE,
                           failedAt |-> Len(reqs)]
                     ELSE [requests |-> reqs, outcome |-> Return(uresp = "true"),
                           md5s |-> RecordUpload(fetch.md5s,
                                                 TrackMD5(uFilepath, bForce),
                                                 uresp = "true"),
                           remote |-> IF uresp = "true"
                                      THEN RemoteAccepts(remote, uFilepath)
                                      ELSE remote,
                           decision |-> "upload", compared |-> cmp,
                           sent |-> (uresp = "true"), failedAt |-> 0]
    IN  IF bForce THEN transfer(<<>>)
        ELSE IF fetch.raised # "" THEN stop(fetch.raised, "none", <<>>)
        ELSE IF uFilepath \notin ReadableFiles THEN stop("OSError", "none", <<>>)
        ELSE IF AlreadyUploaded(CalcMD5(uFilepath), fetch.md5s)
             THEN [requests |-> fetch.requests, outcome |-> Return(TRUE),
                   md5s |-> fetch.md5s, remote |-> remote, decision |-> "skip",
                   compared |-> fetch.md5s, sent |-> FALSE, failedAt |-> 0]
        ELSE transfer(fetch.md5s)

\* a guard that lets every call through
ApiDisabled_Never(bAllowed) == FALSE

\* lines 422, 446 and 471
ApiDisabled(bAllowed) == ~bAllowed

Called(op, uFilepath, bForce) == [op |-> op, file |-> uFilepath, force |-> bForce]

\* one call of UploadTrack: what it does to the client, to the remote
\* service and to the record of the call
UploadTrackCall(uFilepath, bForce) ==
    /\ call' = Called("UploadTrack", uFilepath, bForce)
    /\ IF ApiDisabled(bAllowUndocumentedAPIs)
       THEN /\ outcome' = Raise("ServerError")
            /\ requests' = <<>>
            /\ failedAt' = 0
            /\ decision' = "none"
            /\ compared' = <<>>
            /\ UNCHANGED <<aMD5s, remoteMD5s, uploadedNF>>
       ELSE \E mresp \in MD5Responses, uresp \in UploadResponses :
              \E run \in {UploadTrackRun(uFilepath, bForce, mresp, uresp,
                                         aMD5s, remoteMD5s)} :
                  /\ outcome' = run.outcome
                  /\ requests' = run.requests
                  /\ failedAt' = run.failedAt
                  /\ decision' = run.decision
                  /\ compared' = run.compared
                  /\ aMD5s' = run.md5s
                  /\ remoteMD5s' = run.remote
                  /\ uploadedNF' = IF run.sent /\ ~bForce
                                   THEN uploadedNF \cup {FileContent[uFilepath]}
                                   ELSE uploadedNF
    /\ UNCHANGED bAllowUndocumentedAPIs

UploadTrack(uFilepath, bForce) ==
    /\ Len(aMD5s) < MaxMD5s
    /\ UploadTrackCall(uFilepath, bForce)
    /\ UNCHANGED <<matchVars, libraryVars, batchVars>>

GetMD5s ==
    /\ call' = Called("GetMD5s", "", FALSE)
    /\ decision' = "none"
    /\ compared' = <<>>
    /\ IF ApiDisabled(bAllowUndocumentedAPIs)
       THEN /\ outcome' = Raise("ServerError")
            /\ requests' = <<>>
            /\ failedAt' = 0
            /\ UNCHANGED aMD5s
       ELSE \E resp \in MD5Responses :
              LET run == GetMD5sRun(resp, aMD5s, remoteMD5s)
              IN  /\ requests' = run.requests
                  /\ failedAt' = run.failedAt
                  /\ aMD5s' = run.md5s
                  /\ outcome' = IF run.raised # "" THEN Raise(run.raised)
                                ELSE Return(run.md5s)
    /\ UNCHANGED <<bAllowUndocumentedAPIs, remoteMD5s, uploadedNF, matchVars,
                   libraryVars, batchVars>>

\* GetSupportedFiletypes (438-459): one call
GetSupportedFiletypesCall ==
    /\ call' = Called("GetSupportedFiletypes", "", FALSE)
    /\ decision' = "none"
    /\ compared' = <<>>
    /\ IF ApiDisabled(bAllowUndocumentedAPIs)
       THEN /\ outcome' = Raise("ServerError")
            /\ requests' = <<>>
            /\ failedAt' = 0
       ELSE \E resp \in FiletypeResponses :
              /\ requests' = <<Req("status", "")>>
              /\ failedAt' = IF resp = "fail" THEN 1 ELSE 0
              /\ outcome' = IF resp = "supported" THEN Return(<<".mp3">>)
                            ELSE Raise("ServerError")
    /\ UNCHANGED <<bAllowUndocumentedAPIs, aMD5s, remoteMD5s, uploadedNF>>

GetSupportedFiletypes ==
    /\ GetSupportedFiletypesCall
    /\ UNCHANGED <<matchVars, libraryVars, batchVars>>

(***************************************************************************)
(* upload_folder (main.py 81-123).  list_files (85-109) returns the files  *)
(* of the folder that have a supported extension, each once; every file of *)
(* the model has one.                                                       *)
(***************************************************************************)
RECURSIVE FileLists(_)
FileLists(n) ==
    IF n = 0 THEN {<<>>}
    ELSE LET shorter == FileLists(n - 1)
         IN  shorter \cup {Append(l, f) : l \in {x \in shorter : Len(x) = n - 1},
                                          f \in Files}

\* every file is listed once
ListedOnce(l) == \A i, j \in DOMAIN l : l[i] = l[j] => i = j

\* lines 111-113: an exception of GetSupportedFiletypes leaves upload_folder
upload_folder_Start ==
    /\ ufPc = "start"
    /\ GetSupportedFiletypesCall
    /\ IF outcome'[1] = "raise"
       THEN /\ ufPc' = "raised"
            /\ UNCHANGED folder_files
       ELSE /\ ufPc' = "loop"
            /\ \E files \in {l \in FileLists(MaxFolderFiles) : ListedOnce(l)} :
                  folder_files' = files
    /\ UNCHANGED <<args, iFile, ufLog, matchVars, libraryVars>>

\* lines 114-123, one iteration: an exception of UploadTrack leaves the loop
\* and upload_folder
upload_folder_File ==
    /\ ufPc = "loop"
    /\ iFile < Len(folder_files)
    /\ LET filename == folder_files[iFile + 1]
       IN  IF args.dryrun
           THEN /\ ufLog' = Append(ufLog, <<filename, "skipped">>)
                /\ iFile' = iFile + 1
                /\ UNCHANGED <<ufPc, callVars, uploadVars>>
           ELSE /\ UploadTrackCall(filename, args.force)
                /\ IF outcome'[1] = "raise"
                   THEN /\ ufPc' = "raised"
                        /\ UNCHANGED <<iFile, ufLog>>
                   ELSE /\ ufLog' = Append(ufLog,
                                           <<filename, IF outcome'[2] THEN "succeeded"
                                                       ELSE "failed">>)
                        /\ iFile' = iFile + 1
                        /\ UNCHANGED ufPc
    /\ UNCHANGED <<args, folder_files, matchVars, libraryVars>>

\* the loop of line 114 has taken every file: upload_folder returns
upload_folder_Return ==
    /\ ufPc = "loop"
    /\ iFile = Len(folder_files)
    /\ ufPc' = "done"
    /\ UNCHANGED <<args, folder_files, iFile, ufLog, callVars, uploadVars,
                   matchVars, libraryVars>>

(***************************************************************************)
(* Python dicts (the JSON objects of the remote service, the dicts of the  *)
(* client) keep their keys in insertion order: a dict is a sequence of     *)
(* <<key, value>> pairs with distinct keys.                                 *)
(***************************************************************************)
DictHas(d, k) == \E i \in DOMAIN d : d[i][1] = k

\* d.get(k, default)
DictGet(d, k, default) ==
    IF DictHas(d, k) THEN d[CHOOSE i \in DOMAIN d : d[i][1] = k][2] ELSE default

\* d[k] = v
DictPut(d, k, v) ==
    IF DictHas(d, k)
    THEN [i \in DOMAIN d |-> IF d[i][1] = k THEN <<k, v>> ELSE d[i]]
    ELSE Append(d, <<k, v>>)

\* str.startswith
StartsWith(s, prefix) ==
    Len(prefix) <= Len(s) /\ SubSeq(s, 1, Len(prefix)) = prefix

\* the defaults of the field-index lookups
DefaultIndexPlayListName == 0
DefaultIndexAlbumName == 0
DefaultIndexTracks == 1
DefaultIndexPath == 12

(***************************************************************************)
(* The library the remote service serves.  Two layouts of the positional   *)
(* records: "std" has the track path at index 12 and album fields as       *)
(* <<name, tracks>>; "moved" has the track path at index 2 (index 12 holds *)
(* another string) and album fields as <<tracks, name>>.                   *)
(***************************************************************************)
TrackFields == DefaultIndexPath + 1

TrackRecord(iPath, uPath, uOther) ==
    [i \in 1..TrackFields |-> IF i = iPath + 1 THEN uPath
                              ELSE IF i = TrackFields THEN uOther
                              ELSE <<>>]

PathT1 == <<"/", "a", "b", "/", "x">>
PathT2 == <<"/", "p", "/", "z">>
OtherT1 == <<"/", "p", "/", "q">>
OtherT2 == <<"/", "a", "/", "q">>

TracksStd ==
    << <<"map", << <<"path", 12>> >> >>,
       <<"t1", TrackRecord(12, PathT1, PathT1)>>,
       <<"t2", TrackRecord(12, PathT2, PathT2)>> >>

TracksMoved ==
    << <<"map", << <<"path", 2>> >> >>,
       <<"t1", TrackRecord(2, PathT1, OtherT1)>>,
       <<"t2", TrackRecord(2, PathT2, OtherT2)>> >>

AlbumsStd ==
    << <<"map", << <<"name", 0>>, <<"tracks", 1>> >> >>,
       <<"a1", << <<"a", "A">>, <<"t1", "t2">> >> >>,
       <<"a2", << <<"a">>, <<"t2">> >> >> >>

AlbumsMoved ==
    << <<"map", << <<"tracks", 0>>, <<"name", 1>> >> >>,
       <<"a2", << <<"t2">>, <<"a">> >> >>,
       <<"a1", << <<"t1", "t2">>, <<"a", "A">> >> >> >>

\* the playlists collection of a library response
PlayListsOf(remote) ==
    << <<"map", << <<"name", 0>> >> >> >>
       \o [i \in 1..Len(remote) |-> <<remote[i][1], <<remote[i][2]>> >>]

\* the kinds of answer to a 'library' request that are not the empty object
LibraryKinds == {"nolib", "std", "moved", "bare"}
\* how a run of 'library' requests ends: with one of those, or with a failure
FinalResponses == LibraryKinds \cup {"fail"}

LibraryResponse(kind, remote) ==
    CASE kind = "nolib" -> << <<"message", "not available">> >>
      [] kind = "std" ->
            << <<"library", << <<"albums", AlbumsStd>>,
                               <<"tracks", TracksStd>>,
                               <<"playlists", PlayListsOf(remote)>> >> >> >>
      [] kind = "moved" ->
            << <<"library", << <<"albums", AlbumsMoved>>,
                               <<"tracks", TracksMoved>>,
                               <<"playlists", PlayListsOf(remote)>> >> >> >>
      [] kind = "bare" ->
            << <<"library", << <<"albums", <<>> >>,
                               <<"playlists", PlayListsOf(remote)>> >> >> >>

\* answers to deleteplaylist and createplaylist: failure, result true, result false
PlayListResponses == {"fail", "true", "false"}

InitialRemotePlayLists == { <<>>, << <<"10", "p1">> >> }

\* the IDs the remote service gives the playlists it creates
NewPlayListIds == <<"20", "21", "22", "23">>

RemoteDeletes(remote, uIndex) == SelectSeq(remote, LAMBDA pl : pl[1] # uIndex)

RemoteCreates(remote, uName) ==
    Append(remote, <<NewPlayListIds[Len(SelectSeq(remote, LAMBDA pl : pl[1] \in Range(NewPlayListIds))) + 1], uName>>)

(***************************************************************************)
(* _ReadPlayLists (251-282) from line 268 on: one pass over the playlists  *)
(* of the snapshot.  st = [lib, names, map, index] holds self._dLibrary,   *)
(* self._dPlayListName, self._dMap_PlayLists and                            *)
(* self._iPlayLists_IndexPlayListName.  Line 281 appends the playlist ID   *)
(* to the record, which is the record of the snapshot itself.  (The list   *)
(* self._aPlayListIndex of line 279 is only ever appended to and counted   *)
(* for a return value that GetLibrary drops: it is left out.)              *)
(***************************************************************************)
RECURSIVE ReadPlayListsFrom(_, _, _, _)
ReadPlayListsFrom(i, dPlayLists, names, iName) ==
    IF i > Len(dPlayLists) THEN [playlists |-> dPlayLists, names |-> names]
    ELSE LET uPlayListIndex == dPlayLists[i][1]
             record == Append(dPlayLists[i][2], uPlayListIndex)
         IN  IF uPlayListIndex = "map"
             THEN ReadPlayListsFrom(i + 1, dPlayLists, names, iName)
             ELSE ReadPlayListsFrom(
                      i + 1,
                      [dPlayLists EXCEPT ![i] = <<uPlayListIndex, record>>],
                      DictPut(names, dPlayLists[i][2][iName + 1], record),
                      iName)

ReadPlayListsPass(st) ==
    LET library == DictGet(st.lib, "library", <<>>)
        dPlayLists == DictGet(library, "playlists", <<>>)
        map == DictGet(dPlayLists, "map", <<>>)
        iName == DictGet(map, "name", DefaultIndexPlayListName)
        read == ReadPlayListsFrom(1, dPlayLists, st.names, iName)
    IN  IF Len(dPlayLists) = 0 THEN st
        ELSE [lib   |-> DictPut(st.lib, "library",
                                DictPut(library, "playlists", read.playlists)),
              names |-> read.names,
              map   |-> map,
              index |-> iName]

RECURSIVE ReadPlayListsTimes(_, _)
ReadPlayListsTimes(n, st) ==
    IF n = 0 THEN st ELSE ReadPlayListsTimes(n - 1, ReadPlayListsPass(st))

(***************************************************************************)
(* GetLibrary (185-194) with _ReadPlayLists (251-282).  _ReadPlayLists     *)
(* calls GetLibrary again when the snapshot it finds is empty (265-266),   *)
(* so the remote service is asked until it answers something else than {}: *)
(* nEmpty answers {} and then `final`.  Every _ReadPlayLists that was      *)
(* waiting then makes its pass over the snapshot.                           *)
(***************************************************************************)
LibraryRequests(n) == [i \in 1..n |-> Req("library", "")]

\* an exception no caller catches
Propagates_Never(raised) == FALSE

\* there is no try statement around the calls of lines 233, 266, 301 and
\* 337: what a callee raises leaves the caller at once
Propagates(raised) == raised # ""

GetLibraryRun(nEmpty, final, st, remote) ==
    IF final = "fail"
    THEN [requests |-> LibraryRequests(nEmpty + 1),
          raised   |-> "ServerError",
          failedAt |-> nEmpty + 1,
          st       |-> [st EXCEPT !.lib = IF nEmpty > 0 THEN <<>> ELSE st.lib]]
    ELSE [requests |-> LibraryRequests(nEmpty + 1),
          raised   |-> "",
          failedAt |-> 0,
          st       |-> ReadPlayListsTimes(
                           nEmpty + 1,
                           [st EXCEPT !.lib = LibraryResponse(final, remote)])]

\* the answers a run of 'library' requests may get: the number of {} and
\* the answer that ends it
LibraryAnswers == (0..MaxEmptyResponses) \X FinalResponses

\* the answers that matter to a call that fetches only when no snapshot is
\* loaded
LazyAnswers(possible, lib) == IF Len(lib) = 0 THEN possible ELSE {<<0, "fail">>}

\* lines 300-301 and 336-337: the snapshot is fetched when none is loaded
LazyLibrary(nEmpty, final, st, remote) ==
    IF Len(st.lib) = 0 THEN GetLibraryRun(nEmpty, final, st, remote)
    ELSE [requests |-> <<>>, raised |-> "", failedAt |-> 0, st |-> st]

ClientPlayLists ==
    [lib |-> dLibrary, names |-> dPlayListName, map |-> dMap_PlayLists,
     index |-> iPlayLists_IndexPlayListName]

SetClientPlayLists(st) ==
    /\ dLibrary' = st.lib
    /\ dPlayListName' = st.names
    /\ dMap_PlayLists' = st.map
    /\ iPlayLists_IndexPlayListName' = st.index

GetLibrary(possible) ==
    \E answers \in possible :
      \E run \in {GetLibraryRun(answers[1], answers[2], ClientPlayLists,
                                remotePlayLists)} :
          /\ call' = [op |-> "GetLibrary"]
          /\ requests' = run.requests
          /\ failedAt' = run.failedAt
          /\ outcome' = IF run.raised # "" THEN Raise(run.raised)
                        ELSE Return(run.st.lib)
          /\ SetClientPlayLists(run.st)
          /\ UNCHANGED <<selectionVars, remotePlayLists, uploadVars, matchVars,
                         batchVars>>

(***************************************************************************)
(* SelectTracksByFolder (284-316).                                         *)
(***************************************************************************)
\* line 308: the index of the path field
IndexPath(albumsMap, tracksMap) == DictGet(albumsMap, "path", DefaultIndexPath)

\* lines 297-298 and 333-334: the selection the call starts from
KeptSelection_Always(bAppend, selected) == selected

KeptSelection(bAppend, selected) == IF bAppend THEN selected ELSE <<>>

\* a membership test that lets every ID through
NotSelected_Always(uIndex, selected) == TRUE

\* lines 314 and 352: an ID already in the list is not appended again
NotSelected(uIndex, selected) == uIndex \notin Range(selected)

\* lines 310-315, from the i-th key of the collection on
RECURSIVE SelectTracksFrom(_, _, _, _, _)
SelectTracksFrom(i, dTracks, iPath, uFolder, selected) ==
    IF i > Len(dTracks) THEN [raised |-> "", selected |-> selected]
    ELSE LET uTrackIndex == dTracks[i][1]
             record == dTracks[i][2]
         IN  IF uTrackIndex = "map"
             THEN SelectTracksFrom(i + 1, dTracks, iPath, uFolder, selected)
             ELSE IF iPath + 1 > Len(record)
             THEN [raised |-> "IndexError", selected |-> selected]
             ELSE IF StartsWith(record[iPath + 1], uFolder)
                     /\ NotSelected(uTrackIndex, selected)
             THEN SelectTracksFrom(i + 1, dTracks, iPath, uFolder,
                                   Append(selected, uTrackIndex))
             ELSE SelectTracksFrom(i + 1, dTracks, iPath, uFolder, selected)

SelectTracksByFolder(possible, uFolder, bAppend) ==
    \E answers \in LazyAnswers(possible, dLibrary) :
      \E fetch \in {LazyLibrary(answers[1], answers[2], ClientPlayLists,
                                remotePlayLists)} :
      \E dTracks \in {DictGet(DictGet(fetch.st.lib, "library", <<>>),
                              "tracks", <<>>)} :
      LET kept == KeptSelection(bAppend, aTracks)
          tracksMap == DictGet(dTracks, "map", <<>>)
          iPath == IndexPath(dMap_Albums, tracksMap)
      IN
      \E run \in {SelectTracksFrom(1, dTracks, iPath, uFolder, kept)} :
          /\ call' = [op |-> "SelectTracksByFolder", folder |-> uFolder,
                      append |-> bAppend]
          /\ requests' = fetch.requests
          /\ failedAt' = fetch.failedAt
          /\ SetClientPlayLists(fetch.st)
          /\ IF Propagates(fetch.raised)
             THEN /\ outcome' = Raise(fetch.raised)
                  /\ aTracks' = kept
                  /\ UNCHANGED <<dMap_Tracks, iTracks_IndexPath>>
             ELSE IF Len(dTracks) = 0
             THEN /\ outcome' = Return(0)
                  /\ aTracks' = kept
                  /\ UNCHANGED <<dMap_Tracks, iTracks_IndexPath>>
             ELSE /\ dMap_Tracks' = tracksMap
                  /\ iTracks_IndexPath' = iPath
                  /\ aTracks' = run.selected
                  /\ outcome' = IF run.raised # "" THEN Raise(run.raised)
                                ELSE Return(Len(run.selected))
          /\ UNCHANGED <<aAlbums, dMap_Albums, iAlbums_IndexAlbumName,
                         iAlbums_IndexTracks, remotePlayLists, uploadVars,
                         matchVars, batchVars>>

(***************************************************************************)
(* SelectAlbumsByAlbumName (318-354).                                      *)
(***************************************************************************)
\* lines 347-353, from the i-th key of the collection on
RECURSIVE SelectAlbumsFrom(_, _, _, _, _)
SelectAlbumsFrom(i, dAlbums, iName, uFilter, selected) ==
    IF i > Len(dAlbums) THEN [raised |-> "", selected |-> selected]
    ELSE LET uAlbumIndex == dAlbums[i][1]
             record == dAlbums[i][2]
         IN  IF uAlbumIndex = "map"
             THEN SelectAlbumsFrom(i + 1, dAlbums, iName, uFilter, selected)
             ELSE IF iName + 1 > Len(record)
             THEN [raised |-> "IndexError", selected |-> selected]
             ELSE IF MatchWildCard(record[iName + 1], uFilter)
                     /\ NotSelected(uAlbumIndex, selected)
             THEN SelectAlbumsFrom(i + 1, dAlbums, iName, uFilter,
                                   Append(selected, uAlbumIndex))
             ELSE SelectAlbumsFrom(i + 1, dAlbums, iName, uFilter, selected)

SelectAlbumsByAlbumName(possible, uFilter, bAppend) ==
    \E answers \in LazyAnswers(possible, dLibrary) :
      \E fetch \in {LazyLibrary(answers[1], answers[2], ClientPlayLists,
                                remotePlayLists)} :
      \E dAlbums \in {DictGet(DictGet(fetch.st.lib, "library", <<>>),
                              "albums", <<>>)} :
      LET kept == KeptSelection(bAppend, aAlbums)
          albumsMap == DictGet(dAlbums, "map", <<>>)
          iName == DictGet(albumsMap, "name", DefaultIndexAlbumName)
      IN
      \E run \in {SelectAlbumsFrom(1, dAlbums, iName, uFilter, kept)} :
          /\ call' = [op |-> "SelectAlbumsByAlbumName", filter |-> uFilter,
                      append |-> bAppend]
          /\ requests' = fetch.requests
          /\ failedAt' = fetch.failedAt
          /\ SetClientPlayLists(fetch.st)
          /\ IF Propagates(fetch.raised)
             THEN /\ outcome' = Raise(fetch.raised)
                  /\ aAlbums' = kept
                  /\ UNCHANGED <<dMap_Albums, iAlbums_IndexAlbumName,
                                 iAlbums_IndexTracks>>
             ELSE IF Len(dAlbums) = 0
             THEN /\ outcome' = Return(0)
                  /\ aAlbums' = kept
                  /\ UNCHANGED <<dMap_Albums, iAlbums_IndexAlbumName,
                                 iAlbums_IndexTracks>>
             ELSE /\ dMap_Albums' = albumsMap
                  /\ iAlbums_IndexAlbumName' = iName
                  /\ iAlbums_IndexTracks' = DictGet(albumsMap, "tracks",
                                                    DefaultIndexTracks)
                  /\ aAlbums' = run.selected
                  /\ outcome' = IF run.raised # "" THEN Raise(run.raised)
                                ELSE Return(Len(run.selected))
          /\ UNCHANGED <<aTracks, dMap_Tracks, iTracks_IndexPath,
                         remotePlayLists, uploadVars, matchVars, batchVars>>

(***************************************************************************)
(* DeletePlayList (196-211) and CreatePlayList (214-248).                  *)
(***************************************************************************)
\* lines 207-211, as a function of the answer to deleteplaylist
DeletePlayListRun(uName, resp, names, remote) ==
    IF ~DictHas(names, uName)
    THEN [requests |-> <<>>, raised |-> "", failedAt |-> 0, result |-> FALSE,
          remote |-> remote]
    ELSE LET record == DictGet(names, uName, <<>>)
             uIndex == record[Len(record)]
         IN  [requests |-> <<Req("deleteplaylist", uIndex)>>,
              raised   |-> IF resp = "fail" THEN "ServerError" ELSE "",
              failedAt |-> IF resp = "fail" THEN 1 ELSE 0,
              result   |-> (resp = "true"),
              remote   |-> IF resp = "true" THEN RemoteDeletes(remote, uIndex)
                           ELSE remote]

DeletePlayList(uName) ==
    \E resp \in PlayListResponses :
      \E run \in {DeletePlayListRun(uName, resp, dPlayListName, remotePlayLists)} :
          /\ call' = [op |-> "DeletePlayList", name |-> uName]
          /\ requests' = run.requests
          /\ failedAt' = run.failedAt
          /\ outcome' = IF run.raised # "" THEN Raise(run.raised)
                        ELSE Return(run.result)
          /\ remotePlayLists' = run.remote
          /\ UNCHANGED <<dLibrary, selectionVars, playListVars, uploadVars,
                         matchVars, batchVars>>

\* line 232: the playlist is deleted when the client knows its name
DeletesFirst(uName, names) == DictHas(names, uName)

\* lines 239-242, from the i-th selected album on
RECURSIVE AlbumTracksFrom(_, _, _, _)
AlbumTracksFrom(i, selected, dAlbums, iTracks) ==
    IF i > Len(selected) THEN [raised |-> "", tracks |-> <<>>]
    ELSE IF ~DictHas(dAlbums, selected[i])
    THEN [raised |-> "KeyError", tracks |-> <<>>]
    ELSE LET aAlbum == DictGet(dAlbums, selected[i], <<>>)
             rest == AlbumTracksFrom(i + 1, selected, dAlbums, iTracks)
         IN  IF iTracks + 1 > Len(aAlbum)
             THEN [raised |-> "IndexError", tracks |-> <<>>]
             ELSE IF rest.raised # "" THEN rest
             ELSE [raised |-> "", tracks |-> aAlbum[iTracks + 1] \o rest.tracks]

CreatePlayList(uName) ==
    /\ Len(SelectSeq(remotePlayLists, LAMBDA pl : pl[1] \in Range(NewPlayListIds)))
          < MaxPlayLists
    /\ \E dresp \in IF DeletesFirst(uName, dPlayListName)
                     THEN PlayListResponses ELSE {"true"},
          cresp \in PlayListResponses :
         \E del \in {IF DeletesFirst(uName, dPlayListName)
                     THEN DeletePlayListRun(uName, dresp, dPlayListName,
                                            remotePlayLists)
                     ELSE [requests |-> <<>>, raised |-> "", failedAt |-> 0,
                           result |-> FALSE, remote |-> remotePlayLists]} :
         \E albums \in {AlbumTracksFrom(
                             1, aAlbums,
                             DictGet(DictGet(dLibrary, "library", <<>>),
                                     "albums", <<>>),
                             iAlbums_IndexTracks)} :
         LET aPlayListTracks == albums.tracks \o aTracks
         IN  /\ call' = [op |-> "CreatePlayList", name |-> uName]
             /\ failedAt' = IF del.failedAt # 0 THEN del.failedAt
                            ELSE IF albums.raised = "" /\ cresp = "fail"
                            THEN Len(del.requests) + 1
                            ELSE 0
             /\ IF Propagates(del.raised)
                THEN /\ requests' = del.requests
                     /\ outcome' = Raise(del.raised)
                     /\ remotePlayLists' = del.remote
                ELSE IF albums.raised # ""
                THEN /\ requests' = del.requests
                     /\ outcome' = Raise(albums.raised)
                     /\ remotePlayLists' = del.remote
                ELSE /\ requests' = del.requests
                          \o <<Req("createplaylist", <<uName, aPlayListTracks>>)>>
                     /\ outcome' = IF cresp = "fail" THEN Raise("ServerError")
                                   ELSE Return(cresp = "true")
                     /\ remotePlayLists' = IF cresp = "true"
                                           THEN RemoteCreates(del.remote, uName)
                                           ELSE del.remote
             /\ UNCHANGED <<dLibrary, selectionVars, playListVars, uploadVars,
                            matchVars, batchVars>>

(***************************************************************************)
(* Initial states: the fields as __init__ (73-101) sets them.              *)
(***************************************************************************)
CallIdle ==
    /\ call = Called("init", "", FALSE)
    /\ requests = <<>>
    /\ outcome = NoOutcome
    /\ failedAt = 0

UploadInit ==
    /\ bAllowUndocumentedAPIs \in BOOLEAN
    /\ aMD5s = <<>>
    /\ remoteMD5s \in InitialRemoteMD5s
    /\ decision = "none"
    /\ compared = <<>>
    /\ uploadedNF = {}

UploadIdle ==
    /\ bAllowUndocumentedAPIs = FALSE
    /\ aMD5s = <<>>
    /\ remoteMD5s = <<>>
    /\ decision = "none"
    /\ compared = <<>>
    /\ uploadedNF = {}

\* lines 79-95
LibraryConstructed ==
    /\ dLibrary = <<>>
    /\ aAlbums = <<>>
    /\ aTracks = <<>>
    /\ dPlayListName = <<>>
    /\ dMap_Albums = <<>>
    /\ iAlbums_IndexAlbumName = 0
    /\ iAlbums_IndexTracks = 0
    /\ dMap_Tracks = <<>>
    /\ iTracks_IndexPath = 0
    /\ dMap_PlayLists = <<>>
    /\ iPlayLists_IndexPlayListName = 0

LibraryInit ==
    /\ LibraryConstructed
    /\ remotePlayLists \in InitialRemotePlayLists

LibraryIdle ==
    /\ LibraryConstructed
    /\ remotePlayLists = <<>>

BatchIdle ==
    /\ ufPc = "idle"
    /\ args = [force |-> FALSE, dryrun |-> FALSE]
    /\ folder_files = <<>>
    /\ iFile = 0
    /\ ufLog = <<>>

MatchIdle ==
    /\ mValue = <<>>
    /\ mPattern = <<>>
    /\ mResult = FALSE
    /\ mPc = "idle"

(***************************************************************************)
(* The matcher on its own: every value and pattern within the bounds, one  *)
(* call each.                                                               *)
(***************************************************************************)
InitMatch ==
    /\ mValue \in StringsUpTo(MaxValueLen)
    /\ mPattern \in StringsUpTo(MaxPatternLen)
    /\ mResult = FALSE
    /\ mPc = "call"
    /\ UploadIdle
    /\ CallIdle
    /\ LibraryIdle
    /\ BatchIdle

CallMatchWildCard ==
    /\ mPc = "call"
    /\ mResult' = MatchWildCard(mValue, mPattern)
    /\ mPc' = "done"
    /\ UNCHANGED <<mValue, mPattern, uploadVars, callVars, libraryVars, batchVars>>

NextMatch == CallMatchWildCard

SpecMatch == InitMatch /\ [][NextMatch]_vars

(***************************************************************************)
(* The upload workflow: any sequence of the undocumented-API calls.        *)
(***************************************************************************)
InitUpload == UploadInit /\ CallIdle /\ MatchIdle /\ LibraryIdle /\ BatchIdle

NextUpload ==
    \/ \E f \in Files, bForce \in BOOLEAN : UploadTrack(f, bForce)
    \/ GetMD5s
    \/ GetSupportedFiletypes

SpecUpload == InitUpload /\ [][NextUpload]_vars

(***************************************************************************)
(* The batch upload: main.py builds the client with the undocumented APIs  *)
(* enabled (line 161) and calls upload_folder once (line 163).             *)
(***************************************************************************)
InitBatch ==
    /\ bAllowUndocumentedAPIs = TRUE
    /\ aMD5s = <<>>
    /\ remoteMD5s \in InitialRemoteMD5s
    /\ decision = "none"
    /\ compared = <<>>
    /\ uploadedNF = {}
    /\ ufPc = "start"
    /\ args \in [force : BOOLEAN, dryrun : BOOLEAN]
    /\ folder_files = <<>>
    /\ iFile = 0
    /\ ufLog = <<>>
    /\ CallIdle /\ MatchIdle /\ LibraryIdle

NextBatch ==
    \/ upload_folder_Start
    \/ upload_folder_File
    \/ upload_folder_Return

SpecBatch == InitBatch /\ [][NextBatch]_vars

(***************************************************************************)
(* The selection workflow: any sequence of library fetches and selections, *)
(* with any answers of the remote service.                                 *)
(***************************************************************************)
Filters == {<<"a", "*">>, <<"a">>, <<"A">>}
Folders == {<<"/", "a">>, <<"/", "p">>, <<"/", "a", "/">>}

\* the selections read the albums and the tracks of the library only: the
\* remote service holds no playlist here
InitSelection ==
    /\ LibraryConstructed
    /\ remotePlayLists = <<>>
    /\ CallIdle /\ UploadIdle /\ MatchIdle /\ BatchIdle

NextSelection ==
    \/ GetLibrary(LibraryAnswers)
    \/ \E uFolder \in Folders, bAppend \in BOOLEAN :
          SelectTracksByFolder(LibraryAnswers, uFolder, bAppend)
    \/ \E uFilter \in Filters, bAppend \in BOOLEAN :
          SelectAlbumsByAlbumName(LibraryAnswers, uFilter, bAppend)

SpecSelection == InitSelection /\ [][NextSelection]_vars

(***************************************************************************)
(* The playlist workflow: any sequence of library fetches and playlist     *)
(* calls, with any answers of the remote service.                          *)
(***************************************************************************)
PlayListNames == {"p1", "p2"}

\* the selections stay empty here, so the albums and tracks of the library
\* are never read: one kind of library is served
PlayListAnswers == (0..MaxEmptyResponses) \X {"nolib", "std", "fail"}

InitPlayList == LibraryInit /\ CallIdle /\ UploadIdle /\ MatchIdle /\ BatchIdle

NextPlayList ==
    \/ GetLibrary(PlayListAnswers)
    \/ \E uName \in PlayListNames : CreatePlayList(uName)
    \/ \E uName \in PlayListNames : DeletePlayList(uName)

SpecPlayList == InitPlayList /\ [][NextPlayList]_vars

(***************************************************************************)
(* Building a playlist: any sequence of library fetches, selections and    *)
(* CreatePlayList calls, with any answers of the remote service.           *)
(***************************************************************************)
InitBuild ==
    /\ LibraryConstructed
    /\ remotePlayLists = << <<"10", "p1">> >>
    /\ CallIdle /\ UploadIdle /\ MatchIdle /\ BatchIdle

\* the remote service answers every 'library' request with a library that
\* has albums and tracks, in either layout, or with a failure
BuildAnswers == {0} \X {"std", "moved", "fail"}

BuildFilters == {<<"a", "*">>, <<"a">>}
BuildFolders == {<<"/", "p">>}

NextBuild ==
    \/ GetLibrary(BuildAnswers)
    \/ \E uFolder \in BuildFolders, bAppend \in BOOLEAN :
          SelectTracksByFolder(BuildAnswers, uFolder, bAppend)
    \/ \E uFilter \in BuildFilters, bAppend \in BOOLEAN :
          SelectAlbumsByAlbumName(BuildAnswers, uFilter, bAppend)
    \/ CreatePlayList("p1")

SpecBuild == InitBuild /\ [][NextBuild]_vars

(***************************************************************************)
(* Properties.                                                             *)
(***************************************************************************)
Uploads(reqs) == {i \in DOMAIN reqs : reqs[i][1] = "upload"}

IsUploadTrack == call.op = "UploadTrack"

\* a non-forced UploadTrack that reached the comparison of line 486
Compared == IsUploadTrack /\ ~call.force /\ decision # "none"

(* C1: a non-forced UploadTrack whose checksum is in the checksum set it   *)
(* compares against decides SKIP, issues no transfer and returns True; one *)
(* whose checksum is absent issues the transfer; a forced UploadTrack of a *)
(* file it can open issues the transfer whether or not the checksum of the *)
(* file is in the set.                                                      *)
C1_UploadDecision ==
    /\ (Compared /\ CalcMD5(call.file) \in Range(compared))
          => /\ decision = "skip"
             /\ Uploads(requests) = {}
             /\ outcome = Return(TRUE)
    /\ (Compared /\ CalcMD5(call.file) \notin Range(compared))
          => /\ decision = "upload"
             /\ Cardinality(Uploads(requests)) = 1
             /\ requests[Len(requests)] = Req("upload", call.file)
    /\ (IsUploadTrack /\ call.force /\ bAllowUndocumentedAPIs
        /\ call.file \in ReadableFiles)
          => /\ decision = "upload"
             /\ requests = <<Req("upload", call.file)>>
    \* the comparison is skipped only by a call that raised before line 486
    /\ (IsUploadTrack /\ ~call.force /\ decision = "none")
          => /\ outcome[1] = "raise"
             /\ Uploads(requests) = {}

C1_Witness ==
    /\ Compared
    /\ aMD5s # <<>>
    /\ CalcMD5(call.file) \in Range(compared)
    /\ decision = "skip"
    /\ outcome = Return(TRUE)

(* C2: after a forced UploadTrack whose transfer succeeded, the checksum   *)
(* of the uploaded file is a member of the checksum set.                   *)
C2_ForcedUploadRecorded ==
    (IsUploadTrack /\ call.force /\ outcome = Return(TRUE))
        => CalcMD5(call.file) \in Range(aMD5s)

(* C3: once a non-forced UploadTrack has transferred a content, no later   *)
(* non-forced UploadTrack of a file with that content issues a transfer.   *)
C3_NoSecondTransfer ==
    [][(/\ call'.op = "UploadTrack"
        /\ ~call'.force
        /\ call'.file \in ReadableFiles
        /\ FileContent[call'.file] \in uploadedNF)
          => Uploads(requests') = {}]_vars

C3_Witness ==
    /\ Compared
    /\ FileContent[call.file] \in uploadedNF
    /\ decision = "skip"
    /\ Uploads(requests) = {}

Positions(reqs, cmd) == {i \in DOMAIN reqs : reqs[i][1] = cmd}

(* C4: a CreatePlayList(name) made while the remote service holds a        *)
(* playlist called name issues a deleteplaylist request for that playlist  *)
(* before its createplaylist request.                                       *)
C4_DeleteBeforeCreate ==
    [][(call'.op = "CreatePlayList" /\ Positions(requests', "createplaylist") # {})
          => \A i \in DOMAIN remotePlayLists :
                remotePlayLists[i][2] = call'.name
                   => \E d \in Positions(requests', "deleteplaylist") :
                         /\ requests'[d][2] = remotePlayLists[i][1]
                         /\ \A c \in Positions(requests', "createplaylist") : d < c]_vars

IsSelection(c) == c.op \in {"SelectAlbumsByAlbumName", "SelectTracksByFolder"}

(* C5: a selection operation called while no snapshot is loaded issues     *)
(* exactly one 'library' request, whatever the remote service answers; one *)
(* called while a snapshot is loaded issues none.                           *)
C5_OneLazyFetch ==
    [][IsSelection(call')
          => Cardinality(Positions(requests', "library"))
                = IF Len(dLibrary) = 0 THEN 1 ELSE 0]_vars

\* the track IDs of a tracks collection whose path, at the index the
\* collection's own map gives, starts with the folder
TracksUnder(dTracks, uFolder) ==
    LET iOwn == DictGet(DictGet(dTracks, "map", <<>>), "path", DefaultIndexPath)
    IN  {dTracks[i][1] : i \in {j \in DOMAIN dTracks :
                                   /\ dTracks[j][1] # "map"
                                   /\ StartsWith(dTracks[j][2][iOwn + 1], uFolder)}}

(* C6: SelectTracksByFolder(folder) takes the index of the path field from *)
(* the tracks collection's own map and adds exactly the non-map track IDs  *)
(* whose path at that index starts with folder.                             *)
C6_SelectsByOwnPath ==
    [][(call'.op = "SelectTracksByFolder" /\ outcome'[1] = "return")
          => LET dTracks == DictGet(DictGet(dLibrary', "library", <<>>),
                                    "tracks", <<>>)
                 prior == IF call'.append THEN Range(aTracks) ELSE {}
             IN  /\ Range(aTracks') = prior \cup TracksUnder(dTracks, call'.folder)
                 /\ Len(dTracks) # 0
                       => iTracks_IndexPath'
                             = DictGet(DictGet(dTracks, "map", <<>>), "path",
                                       DefaultIndexPath)]_vars

(* C7: MatchWildCard(v, "*") is true for every value v.                    *)
C7_StarMatchesAll ==
    (mPc = "done" /\ mPattern = <<"*">>) => mResult

(* C8: MatchWildCard(v, "?" + p) is true exactly when v is non-empty and   *)
(* MatchWildCard(v[1:], p) is true.                                         *)
C8_QuestionMatchesOne ==
    (mPc = "done" /\ Len(mPattern) > 0 /\ mPattern[1] = "?")
        => (mResult <=> (Len(mValue) > 0
                         /\ MatchWildCard(Rest(mValue), Rest(mPattern))))

\* p with each run of consecutive '*' replaced by a single '*'
RECURSIVE CollapseStars(_)
CollapseStars(p) ==
    IF Len(p) < 2 THEN p
    ELSE IF p[1] = "*" /\ p[2] = "*" THEN CollapseStars(Tail(p))
    ELSE <<p[1]>> \o CollapseStars(Tail(p))

(* C9: MatchWildCard(v, p) equals MatchWildCard(v, p') where p' is p with  *)
(* each run of consecutive '*' replaced by a single '*'.                   *)
C9_ConsecutiveStars ==
    mPc = "done" => (mResult <=> MatchWildCard(mValue, CollapseStars(mPattern)))

IsLiteral(p) == \A i \in DOMAIN p : p[i] \notin {"*", "?"}

(* C10: for a pattern without '*' and '?', MatchWildCard(v, p) is true     *)
(* exactly when v equals p character for character; and MatchWildCard(v,   *)
(* v) is true for every v.                                                  *)
C10_LiteralPattern ==
    /\ (mPc = "done" /\ IsLiteral(mPattern)) => (mResult <=> mValue = mPattern)
    /\ (mPc = "done" /\ mValue = mPattern) => mResult

C10_Witness ==
    /\ mPc = "done"
    /\ IsLiteral(mPattern)
    /\ Len(mPattern) = 2
    /\ mValue = mPattern
    /\ mResult

NoDuplicates(s) == \A i, j \in DOMAIN s : s[i] = s[j] => i = j

\* a SelectAlbumsByAlbumName that returned
AlbumsSelected(c, o) == c.op = "SelectAlbumsByAlbumName" /\ o[1] = "return"

(* C11: the selected-albums list and the selected-tracks list never hold   *)
(* an ID twice; and a SelectAlbumsByAlbumName with append = true that      *)
(* repeats the filter of the call before it leaves the list as it was.     *)
C11_NoDuplicateSelection ==
    /\ [](NoDuplicates(aAlbums) /\ NoDuplicates(aTracks))
    /\ [][(/\ AlbumsSelected(call, outcome)
           /\ AlbumsSelected(call', outcome')
           /\ call'.filter = call.filter
           /\ call'.append)
             => aAlbums' = aAlbums]_vars

\* the filter "a" is repeated, appending, on a list that holds both albums
C11_Witness ==
    /\ AlbumsSelected(call, outcome)
    /\ call.filter = <<"a">>
    /\ call.append
    /\ aAlbums = <<"a2", "a1">>
    /\ outcome = Return(2)

\* the IDs of the albums of a collection whose name, at the index the map
\* of the collection gives, matches the filter: in the order of the collection
MatchingAlbums(dAlbums, uFilter) ==
    LET iOwn == DictGet(DictGet(dAlbums, "map", <<>>), "name",
                        DefaultIndexAlbumName)
        hits == SelectSeq(dAlbums,
                          LAMBDA e : /\ e[1] # "map"
                                     /\ MatchWildCard(e[2][iOwn + 1], uFilter))
    IN  [i \in DOMAIN hits |-> hits[i][1]]

(* C12: a SelectAlbumsByAlbumName(filter, append) that returns leaves in   *)
(* the selected-albums list, with append = false, exactly the IDs of the   *)
(* albums whose name matches filter and, with append = true, the prior     *)
(* list followed by the matching IDs it did not hold; the selected-tracks  *)
(* list is as it was.                                                       *)
C12_AlbumSelectionFrame ==
    [][call'.op = "SelectAlbumsByAlbumName"
          => /\ aTracks' = aTracks
             /\ outcome'[1] = "return"
                   => LET dAlbums == DictGet(DictGet(dLibrary', "library", <<>>),
                                             "albums", <<>>)
                          prior == IF call'.append THEN aAlbums ELSE <<>>
                      IN  aAlbums' = prior \o SelectSeq(
                                         MatchingAlbums(dAlbums, call'.filter),
                                         LAMBDA id : id \notin Range(prior))]_vars

\* "a*" appended to a list that holds a2: a2 stays first, a1 comes after it
C12_Witness ==
    /\ AlbumsSelected(call, outcome)
    /\ call.filter = <<"a", "*">>
    /\ call.append
    /\ aAlbums = <<"a2", "a1">>
    /\ aTracks # <<>>

\* the track lists of the albums `selected` names, each read at the index the
\* map of the albums collection gives, one after the other
RECURSIVE AlbumTrackLists(_, _, _)
AlbumTrackLists(i, selected, dAlbums) ==
    IF i > Len(selected) THEN <<>>
    ELSE LET iOwn == DictGet(DictGet(dAlbums, "map", <<>>), "tracks",
                             DefaultIndexTracks)
         IN  DictGet(dAlbums, selected[i], <<>>)[iOwn + 1]
                \o AlbumTrackLists(i + 1, selected, dAlbums)

(* C13: the track list of the createplaylist request CreatePlayList sends  *)
(* is the track lists of the selected albums, in album-selection order,    *)
(* followed by the directly selected track IDs in selection order, with    *)
(* nothing removed.                                                         *)
C13_PlayListTrackList ==
    (call.op = "CreatePlayList" /\ Positions(requests, "createplaylist") # {})
        => requests[Len(requests)][2][2]
              = AlbumTrackLists(1, aAlbums,
                                DictGet(DictGet(dLibrary, "library", <<>>),
                                        "albums", <<>>))
                   \o aTracks

(* C14: the checksum set never shrinks: every member of self._aMD5s before *)
(* a call is a member after it.                                             *)
C14_ChecksumsNeverShrink ==
    [][\A uMD5 \in Range(aMD5s) : uMD5 \in Range(aMD5s')]_vars

\* the call issued a transfer request and the transfer did not succeed
TransferFailed(reqs, o) == Uploads(reqs) # {} /\ o # Return(TRUE)

(* C15: an UploadTrack whose transfer does not succeed returns False or    *)
(* raises ServerError, issues that one transfer request only, and adds no  *)
(* checksum: the checksum set is the one the call started with, or the     *)
(* list its GetMD5s fetched, and does not hold the checksum of the file.   *)
C15_FailedTransfer ==
    [][(call'.op = "UploadTrack" /\ TransferFailed(requests', outcome'))
          => /\ outcome' \in {Return(FALSE), Raise("ServerError")}
             /\ Cardinality(Uploads(requests')) = 1
             /\ aMD5s' = IF ~call'.force /\ aMD5s = <<>> THEN remoteMD5s
                         ELSE aMD5s
             /\ ~call'.force => CalcMD5(call'.file) \notin Range(aMD5s')]_vars

C15_Witness ==
    /\ IsUploadTrack
    /\ ~call.force
    /\ outcome = Return(FALSE)
    /\ requests = <<Req("md5", ""), Req("upload", call.file)>>
    /\ aMD5s # <<>>
    /\ CalcMD5(call.file) \notin Range(aMD5s)

\* the operations that talk to the remote service about the library
IsLibraryCall(c) ==
    c.op \in {"GetLibrary", "SelectAlbumsByAlbumName", "SelectTracksByFolder",
              "CreatePlayList"}

(* C18: when a remote request fails during GetLibrary, during the library  *)
(* fetch of a selection operation or during CreatePlayList (its            *)
(* deleteplaylist or its createplaylist request), the operation raises     *)
(* ServerError and the failed request is the last one it issued.           *)
C18_RemoteFailureAborts ==
    (IsLibraryCall(call) /\ failedAt # 0)
        => /\ outcome = Raise("ServerError")
           /\ failedAt = Len(requests)

\* the deleteplaylist request of a CreatePlayList failed: no createplaylist
C18_Witness ==
    /\ call.op = "CreatePlayList"
    /\ failedAt = 1
    /\ requests = <<Req("deleteplaylist", "10")>>
    /\ outcome = Raise("ServerError")

\* upload_folder reports the file it is at as failed and goes on to the next
BatchReportsFailure ==
    /\ ufLog' = Append(ufLog, <<folder_files[iFile + 1], "failed">>)
    /\ iFile' = iFile + 1
    /\ ufPc' = "loop"

\* upload_folder is at a file and calls UploadTrack for it
BatchUploads == ufPc = "loop" /\ iFile < Len(folder_files) /\ ~args.dryrun

(* C16: in upload_folder, when the checksum of a file cannot be computed   *)
(* because the file cannot be read, that file is reported as failed and    *)
(* the loop goes on to the remaining files.                                 *)
C16_UnreadableFileSkipped ==
    [][(/\ BatchUploads
        /\ ~args.force
        /\ folder_files[iFile + 1] \notin ReadableFiles
        /\ outcome' = Raise("OSError"))
          => BatchReportsFailure]_vars

(* C17: in upload_folder, when the transfer of a file fails (result false, *)
(* bad status or connection failure), the file is reported as failed, the  *)
(* loop goes on to the next file and the file is transferred once only.    *)
C17_FailedTransferSkipped ==
    [][(BatchUploads /\ TransferFailed(requests', outcome'))
          => /\ BatchReportsFailure
             /\ Cardinality(Uploads(requests')) = 1]_vars

(* C19: a selection operation that returns, returns the number of IDs its *)
(* selection list holds after the call.                                     *)
C19_ReturnsSelectionSize ==
    (IsSelection(call) /\ outcome[1] = "return")
        => outcome[2] = IF call.op = "SelectAlbumsByAlbumName" THEN Len(aAlbums)
                        ELSE Len(aTracks)

(* C20: MatchWildCard returns a boolean, and every recursive call a call  *)
(* makes has arguments whose combined length is strictly smaller than its  *)
(* own.  (Every value and pattern within the bounds is the argument of an  *)
(* outermost call, and the arguments of a recursive call are suffixes of   *)
(* its caller's: this covers the nested calls.)                             *)
C20_MatcherTerminates ==
    mPc = "done"
        => /\ mResult \in BOOLEAN
           /\ \A c \in RecursiveCalls(mValue, mPattern) :
                 Len(c[1]) + Len(c[2]) < Len(mValue) + Len(mPattern)

\* the pattern '*' against the empty value: the first alternative of line 54
\* is the only call
C20_Witness ==
    /\ mPc = "done"
    /\ mValue = <<>>
    /\ mPattern = <<"*">>
    /\ mResult
    /\ RecursiveCalls(mValue, mPattern) = {<< <<>>, <<>> >>}

(* C21: a non-forced UploadTrack never transfers a file whose checksum the *)
(* list of the remote service contains, whatever calls (forced uploads     *)
(* included) were made before it.                                           *)
C21_DecidesAgainstRemoteList ==
    [][(/\ call'.op = "UploadTrack"
        /\ ~call'.force
        /\ call'.file \in ReadableFiles
        /\ CalcMD5(call'.file) \in Range(remoteMD5s))
          => Uploads(requests') = {}]_vars

IsUndocumentedCall(c) ==
    c.op \in {"GetMD5s", "GetSupportedFiletypes", "UploadTrack"}

(* C22: on a client created with bAllowUndocumentedAPIs = false, every     *)
(* call of GetMD5s, GetSupportedFiletypes or UploadTrack (forced or not)   *)
(* raises ServerError, issues no remote request and leaves the checksum    *)
(* set as it was.                                                           *)
C22_UndocumentedAPIsDisabled ==
    [][(~bAllowUndocumentedAPIs /\ IsUndocumentedCall(call'))
          => /\ outcome' = Raise("ServerError")
             /\ requests' = <<>>
             /\ aMD5s' = aMD5s
             /\ remoteMD5s' = remoteMD5s]_vars

\* a forced UploadTrack on a client that has the undocumented APIs disabled
C22_Witness ==
    /\ ~bAllowUndocumentedAPIs
    /\ IsUploadTrack
    /\ call.force
    /\ call.file \in ReadableFiles
    /\ outcome = Raise("ServerError")
    /\ requests = <<>>
    /\ aMD5s = <<>>

====
